---- MODULE Spec2Model ----
(***************************************************************************)
(* ScribeAI: the real-time session / chunk streaming and transcript        *)
(* pipeline.                                                               *)
(*                                                                         *)
(* Spec       the room-based Socket.io server (server/socket-server.js)    *)
(*            with processAudioChunk (server/services/transcription.js):   *)
(*            two sockets, two sessions, one chunk index, one              *)
(*            transcription call in flight.                                *)
(* SpecLive   Spec with weak fairness of its next-state action.             *)
(* SpecOrder  the same server and handlers, one socket, one session,       *)
(*            several chunk indices, several transcription calls in flight *)
(*            at once.                                                     *)
(* SpecDb     the database-backed Socket.io server (the SocketServer class *)
(*            that keeps the session status in prisma.recordingSession),   *)
(*            its handlers cut at their awaits.                            *)
(* SpecReconnect  SpecDb with the 'reconnect-session' handler.              *)
(* SpecClient the recording page of one socket driving the room-based       *)
(*            server: handleStart, the recorder's chunks, handlePause,     *)
(*            handleResume, handleStop with its two requests, handleReset.  *)
(* SpecParse  processAudioChunk as a function of the capability's text:    *)
(*            the array-returning variant (transcription.js) and the       *)
(*            single-segment variant (transcription.ts).                   *)
(* SpecCapture  the recorder callbacks of the two capture hooks            *)
(*            (useAudioStream, useAudioRecorder): chunks produced, their   *)
(*            asynchronous conversions and the messages emitted.           *)
(* SpecSummary  the summary producers: generateSummary, its call from      *)
(*            'stop-session', the generate-summary route and the client's  *)
(*            handleStop that posts to it; a behaviour follows one         *)
(*            summarization from its call to its result.                   *)
(* SpecSocket  the browser's socket (lib/socket-client.ts): getSocket,      *)
(*            disconnectSocket, the hook's cleanup and the socket's own    *)
(*            connection events.                                           *)
(* SpecTimestamp  formatTimestamp, applied alone and by processAudioChunk. *)
(* SpecSegments  the startTime processAudioChunk gives the segments of the *)
(*            chunks of one session.                                       *)
(***************************************************************************)
EXTENDS Integers, Sequences, FiniteSets, TLC

VARIABLES
    conn,            \* socket id -> "new" | "open" | "closed"
    activeSessions,  \* SocketServer.activeSessions: sessionId -> record | NoSession
    rooms,           \* socket.io rooms: sessionId -> set of joined sockets
    calls,           \* 'audio-chunk' handler invocations awaiting processAudioChunk:
                     \*   <<socket, sessionId, chunkIndex>> -> number of them
    emitted,         \* sessionId -> 'transcript-segment' events broadcast to its room
    sent,            \* socket id -> events the last handler step delivered to that socket
    errorLog,        \* sessionId -> chunk indices of the console.error lines
                     \*   'Error processing audio chunk' (the capability call threw)
    warnLog          \* the console.warn line 'No transcription generated' that
                     \*   processAudioChunk wrote in the last handler step, if any

VARIABLES
    dbStatus,          \* prisma.recordingSession: row id -> status ("none": no row)
    dbUserId,          \* prisma.recordingSession: row id -> userId ("none": no row)
    dbActiveSessions,  \* database-backed SocketServer.activeSessions:
                       \*   socket id -> row id of its session (0: no entry)
    tasks              \* handler invocations of that server suspended at an await

VARIABLE
    summaryJob         \* the summarization in progress or last finished: who asked,
                       \*   its input, where it stands, whether ai.generate was
                       \*   called, and the summary it produced

VARIABLE
    client             \* the recording page (RecordingInterfaceStream with
                       \*   useAudioStream) of socket "s1": sessionState, sessionId,
                       \*   transcripts, chunkCount, the MediaRecorder, and during handleStop the
                       \*   transcript it summarizes and saves and the step it is at

VARIABLE
    transcription      \* one call of processAudioChunk: which variant ran, the text
                       \*   the capability returned, and the segments it resolved to

VARIABLE
    capture            \* one recording of a capture hook (useAudioStream or
                       \*   useAudioRecorder): chunks produced, the hook's index
                       \*   counter, conversions in progress, messages emitted

VARIABLE
    socketClient       \* the module socket-client.ts in one browser: globalSocket,
                       \*   the sockets io() made and the state of each, and the
                       \*   hook's socketRef

VARIABLE
    stamp              \* one application of formatTimestamp, alone or inside
                       \*   processAudioChunk: the milliseconds, the string, and
                       \*   the segments of the chunk

VARIABLE
    stored             \* the segments of one session as processAudioChunk timed
                       \*   them, chunk after chunk

dbVars == <<dbStatus, dbUserId, dbActiveSessions, tasks>>

vars == <<conn, activeSessions, rooms, calls, emitted, sent, errorLog, warnLog, dbVars, summaryJob,
          client, transcription, capture, socketClient, stamp, stored>>

----------------------------------------------------------------------------
(* Bounds of the exploration *)

MaxChunkIndex == 2      \* SpecOrder: largest chunkIndex sent
MaxChunkIndexWide == 0  \* Spec: largest chunkIndex sent
MaxSegments == 2
MaxCalls == 2          \* SpecOrder: transcription calls in flight at once
MaxCallsWide == 1      \* Spec: transcription calls in flight at once
MaxEmitted == 3        \* SpecOrder: segments broadcast per session
MaxEmittedWide == 1    \* Spec: segments broadcast per session
MaxRows == 2           \* SpecDb: rows created in prisma.recordingSession
MaxTasks == 2          \* SpecDb: handler invocations suspended at once
MaxLen == 10           \* SpecSummary: length of the transcript texts explored
MaxTranscripts == 2    \* SpecSummary: transcript segments (or rows) at stop
MaxClientChunks == 2   \* SpecClient: chunks the recorder produces per session
MaxOutputLen == 6      \* SpecParse: length of the capability's transcription text
MaxCaptured == 4       \* SpecCapture: chunks the MediaRecorder produces
MaxSockets == 4        \* SpecSocket: sockets io() makes
MaxSeconds == 3700     \* SpecTimestamp: seconds formatTimestamp is applied to
HundredHours == 360000 \* SpecTimestamp: a number of seconds with a three-digit hour
MaxStampedChunk == 125 \* SpecTimestamp: index of the chunk processAudioChunk stamps
MaxStampedSegments == 2 \* SpecTimestamp: segments of the stamped chunk
MaxTimedChunk == 1     \* SpecSegments: index of the chunks of the session
MaxLinesPerChunk == 31 \* SpecSegments: segments of one chunk

(* Program constants *)

ChunkDurationMs == 30000
SegmentOffsetMs == 1000
MinTranscriptLength == 10   \* z.string().min(10)

Sockets == {"s1", "s2"}
SessionIds == {"A", "B"}
ChunkIndices == 0..MaxChunkIndex
\* the (startTime, audioSource) pairs of the start messages explored
StartData == {[startTime |-> 1, audioSource |-> "microphone"],
              [startTime |-> 2, audioSource |-> "tab-audio"]}
Payloads == {"bytes", "missing"}

NoSession == [sessionId |-> "none"]

----------------------------------------------------------------------------
(* Helpers *)

RECURSIVE SeqOf(_, _)
\* <<f[1], ..., f[n]>>
SeqOf(f, n) == IF n = 0 THEN <<>> ELSE Append(SeqOf(f, n - 1), f[n])

\* Array.prototype.map over the parsed segments of one chunk: the segment at
\* position index (0-based) of chunk chunkIndex.
SegmentOfChunk(chunkIndex, index) ==
    [type       |-> "transcript-segment",
     chunkIndex |-> chunkIndex,
     index      |-> index,
     startTime  |-> chunkIndex * ChunkDurationMs + index * SegmentOffsetMs]

\* The capability's answer to one call: it throws ("failed"), returns empty or
\* whitespace-only text ("empty"), or returns text with n non-blank lines.
Outcomes ==
    {[kind |-> "failed", lines |-> 0], [kind |-> "empty", lines |-> 0]}
        \cup {[kind |-> "text", lines |-> n] : n \in 1..MaxSegments}

\* What processAudioChunk resolves to: null (<<>> here) when the capability
\* threw or returned no text, else one segment per non-blank line.
processAudioChunk(chunkIndex, outcome) ==
    IF outcome.kind \in {"failed", "empty"}
    THEN <<>>
    ELSE SeqOf([i \in 1..outcome.lines |-> SegmentOfChunk(chunkIndex, i - 1)],
               outcome.lines)

\* console.warn(`No transcription generated for chunk ${chunkIndex}`)
Warn(sid, chunkIndex) == [sessionId |-> sid, chunkIndex |-> chunkIndex]
NoWarn == Warn("none", 0)

ErrorEvent(msg) == [type |-> "error", message |-> msg]
SessionEvent(name, sid) == [type |-> name, sessionId |-> sid]

\* One emit of event ev to a set of sockets: io.to(room).emit reaches the
\* members of the room, socket.emit reaches the socket when it is connected.
Deliver(box, recipients, ev) ==
    [s \in Sockets |-> IF s \in recipients THEN Append(box[s], ev) ELSE box[s]]

RECURSIVE EmitSegments(_, _, _, _)
\* for (const segment of segments) { io.to(room).emit(segment); socket.emit(segment) }
EmitSegments(box, segments, roomMembers, sender) ==
    IF segments = <<>> THEN box
    ELSE EmitSegments(
            Deliver(Deliver(box, roomMembers, Head(segments)), sender, Head(segments)),
            Tail(segments), roomMembers, sender)

Open(s) == conn[s] = "open"

Call(s, sid, chunkIndex) == <<s, sid, chunkIndex>>
CallKeys == Sockets \X SessionIds \X ChunkIndices

\* number of invocations awaiting the capability, when no more than `limit` are
InFlight(limit) ==
    Cardinality({cn \in CallKeys \X (1..limit) : calls[cn[1]] >= cn[2]})

Nothing == [s \in Sockets |-> <<>>]

(* Texts are sequences of characters. *)

Chars == {" ", "a"}
Whitespace == {" ", "\n"}
Texts == UNION {[1..n -> Chars] : n \in 0..MaxLen}

RECURSIVE TrimStart(_)
TrimStart(t) == IF t # <<>> /\ Head(t) \in Whitespace THEN TrimStart(Tail(t)) ELSE t

RECURSIVE TrimEnd(_)
TrimEnd(t) ==
    IF t # <<>> /\ t[Len(t)] \in Whitespace THEN TrimEnd(SubSeq(t, 1, Len(t) - 1)) ELSE t

\* String.prototype.trim
Trim(t) == TrimEnd(TrimStart(t))

\* transcript.split(' ').length, 0 for the empty (falsy) transcript
WordCount(t) ==
    IF t = <<>> THEN 0 ELSE 1 + Cardinality({i \in 1..Len(t) : t[i] = " "})

\* The argument of a summarization: a string, or an array of `rows` transcript
\* rows; for the client's handleStop, the string and the number of segments.
String(t) == [array |-> FALSE, text |-> t, rows |-> 0]
ArrayOf(n) == [array |-> TRUE, text |-> <<>>, rows |-> n]

\* The summaries the code can produce, `n` being the number interpolated
SummaryText(t, n) == [text |-> t, n |-> n]
NoSummary == SummaryText("", 0)
NoTranscriptionText == SummaryText("No transcription available for this session.", 0)
FailedText == SummaryText("Failed to generate summary. Please try again.", 0)
AiText == SummaryText("result.text", 0)
\* generateSummary returns result.text as it is: undefined when there is none
UndefinedSummary == SummaryText("undefined", 0)
\* the route's text for a response it cannot read
UnparsedSummary == SummaryText("Session Summary / Transcript: ... (Unable to parse AI response)", 0)

\* How ai.generate ends for a summary: it resolves with a text, it rejects, or
\* it resolves with a response that has neither text nor output.
AiOutcomes == {"text", "throws", "malformed"}
FallbackSummary(words) == SummaryText("AI Summary Generation Test / Transcript received: n words", words)
SessionRecorded(n) == SummaryText("Session recorded n transcript segments.", n)
ValidationFailed == SummaryText("Validation failed", 0)

\* The recording page before its first session
NewClient ==
    [sessionState |-> "idle", sessionId |-> "none", transcripts |-> <<>>,
     chunkCount |-> 0, recorder |-> "inactive", transcriptsToUse |-> <<>>, pc |-> "none"]

Job(caller, input, pc, called, summary) ==
    [caller |-> caller, input |-> input, pc |-> pc, called |-> called, summary |-> summary]
NoJob == Job("none", String(<<>>), "idle", FALSE, NoSummary)

\* the transcript segments the client holds at stop
ClientSegments ==
    {[timestamp |-> <<"0", "0", ":", "0", "0", ":", "0", "0">>, speaker |-> <<"a">>,
      text |-> txt] : txt \in {<<"a">>, <<"a", " ", "a">>}}
ClientTranscripts == UNION {[1..n -> ClientSegments] : n \in 0..MaxTranscripts}

\* `[${t.timestamp}] ${t.speaker}: ${t.text}`
FormatLine(t) == <<"[">> \o t.timestamp \o <<"]", " ">> \o t.speaker \o <<":", " ">> \o t.text

RECURSIVE JoinLines(_)
\* transcripts.map(FormatLine).join('\n')
JoinLines(transcripts) ==
    IF transcripts = <<>> THEN <<>>
    ELSE IF Len(transcripts) = 1 THEN FormatLine(transcripts[1])
    ELSE FormatLine(Head(transcripts)) \o <<"\n">> \o JoinLines(Tail(transcripts))

----------------------------------------------------------------------------
\* one recording of a capture hook: `produced` chunks so far, `ref` the hook's
\* counter, `reading` the chunks being converted, `sentChunks` the
\* 'audio-chunk' messages emitted, each with the chunk it carries
Capture(hook, produced, ref, reading, sentChunks) ==
    [hook |-> hook, produced |-> produced, ref |-> ref, reading |-> reading,
     sentChunks |-> sentChunks]
NoCapture == Capture("none", 0, 0, {}, <<>>)

\* socket-client.ts in one browser; 0 stands for null
SocketIds == 1..MaxSockets
SocketClient(globalSocket, state, socketRef) ==
    [globalSocket |-> globalSocket, state |-> state, socketRef |-> socketRef]
NoSockets == SocketClient(0, [id \in SocketIds |-> "none"], 0)

\* one application of formatTimestamp
Stamp(pc, ms, timestamp, segments) ==
    [pc |-> pc, ms |-> ms, timestamp |-> timestamp, segments |-> segments]
NoStamp == Stamp("idle", 0, <<>>, <<>>)

\* one call of processAudioChunk
Transcription(variant, pc, text, segments) ==
    [variant |-> variant, pc |-> pc, text |-> text, segments |-> segments]
NoTranscription == Transcription("none", "idle", <<>>, <<>>)

Init ==
    /\ conn = [s \in Sockets |-> "new"]
    /\ activeSessions = [sid \in SessionIds |-> NoSession]
    /\ rooms = [sid \in SessionIds |-> {}]
    /\ calls = [c \in CallKeys |-> 0]
    /\ emitted = [sid \in SessionIds |-> <<>>]
    /\ sent = Nothing
    /\ errorLog = [sid \in SessionIds |-> {}]
    /\ warnLog = NoWarn
    /\ dbStatus = [r \in 1..MaxRows |-> "none"]
    /\ dbUserId = [r \in 1..MaxRows |-> "none"]
    /\ dbActiveSessions = [s \in Sockets |-> 0]
    /\ tasks = {}
    /\ summaryJob = NoJob
    /\ client = NewClient
    /\ transcription = NoTranscription
    /\ capture = NoCapture
    /\ socketClient = NoSockets
    /\ stamp = NoStamp
    /\ stored = {}

\* io.on('connection')
Connect(s) ==
    /\ conn[s] = "new"
    /\ conn' = [conn EXCEPT ![s] = "open"]
    /\ sent' = Nothing
    /\ UNCHANGED <<activeSessions, rooms, calls, emitted, errorLog>>
    /\ warnLog' = NoWarn

\* socket.on('start-recording')
StartRecording(s, sid, data) ==
    /\ Open(s)
    /\ activeSessions' = [activeSessions EXCEPT ![sid] =
          [sessionId |-> sid, startTime |-> data.startTime,
           audioSource |-> data.audioSource]]
    /\ rooms' = [rooms EXCEPT ![sid] = @ \cup {s}]
    /\ sent' = Deliver(Nothing, {s}, SessionEvent("recording-started", sid))
    /\ UNCHANGED <<conn, calls, emitted, errorLog>>
    /\ warnLog' = NoWarn

\* AudioChunk without the `return` of the missing-session branch: the handler
\* reports the error and goes on to transcribe the chunk.
AudioChunk_NoReturn(s, sid, chunkIndex, payload, limit) ==
    /\ Open(s)
    /\ IF payload = "missing"
       THEN /\ sent' = Deliver(Nothing, {s}, ErrorEvent("Failed to process audio chunk"))
            /\ UNCHANGED calls
       ELSE /\ InFlight(limit) < limit
            /\ calls' = [calls EXCEPT ![Call(s, sid, chunkIndex)] = @ + 1]
            /\ sent' = IF activeSessions[sid] = NoSession
                       THEN Deliver(Nothing, {s}, ErrorEvent("No active session"))
                       ELSE Nothing
    /\ UNCHANGED <<conn, activeSessions, rooms, emitted, errorLog>>
    /\ warnLog' = NoWarn

\* socket.on('audio-chunk'), up to the await of processAudioChunk
AudioChunk(s, sid, chunkIndex, payload, limit) ==
    /\ Open(s)
    /\ UNCHANGED <<conn, activeSessions, rooms, emitted, errorLog>>
    /\ warnLog' = NoWarn
    /\ IF activeSessions[sid] = NoSession
       THEN /\ sent' = Deliver(Nothing, {s}, ErrorEvent("No active session"))
            /\ UNCHANGED calls
       ELSE IF payload = "missing"
       THEN \* Buffer.from(undefined) throws: the handler's catch block
                    /\ sent' = Deliver(Nothing, {s}, ErrorEvent("Failed to process audio chunk"))
            /\ UNCHANGED calls
       ELSE /\ InFlight(limit) < limit
            /\ calls' = [calls EXCEPT ![Call(s, sid, chunkIndex)] = @ + 1]
            /\ sent' = Nothing

\* the same step, were an empty text reported to the sender as an error
ChunkProcessed_EmptyIsError(s, sid, chunkIndex, outcome, maxEmitted) ==
    /\ calls[Call(s, sid, chunkIndex)] > 0
    /\ LET segments == processAudioChunk(chunkIndex, outcome)
           sender == IF Open(s) THEN {s} ELSE {}
       IN  /\ Len(emitted[sid]) + Len(segments) <= maxEmitted
           /\ calls' = [calls EXCEPT ![Call(s, sid, chunkIndex)] = @ - 1]
           /\ emitted' = [emitted EXCEPT ![sid] = @ \o segments]
           /\ sent' = IF outcome.kind = "empty"
                      THEN Deliver(Nothing, sender, ErrorEvent("No transcription generated"))
                      ELSE EmitSegments(Nothing, segments, rooms[sid], sender)
           /\ errorLog' = IF outcome.kind = "failed"
                           THEN [errorLog EXCEPT ![sid] = @ \cup {chunkIndex}]
                           ELSE errorLog
           /\ warnLog' = IF outcome.kind = "empty" THEN Warn(sid, chunkIndex) ELSE NoWarn
    /\ UNCHANGED <<conn, activeSessions, rooms>>

\* the same step, were the segments sent with socket.emit alone
ChunkProcessed_SenderOnly(s, sid, chunkIndex, outcome, maxEmitted) ==
    /\ calls[Call(s, sid, chunkIndex)] > 0
    /\ LET segments == processAudioChunk(chunkIndex, outcome)
           sender == IF Open(s) THEN {s} ELSE {}
       IN  /\ Len(emitted[sid]) + Len(segments) <= maxEmitted
           /\ calls' = [calls EXCEPT ![Call(s, sid, chunkIndex)] = @ - 1]
           /\ emitted' = [emitted EXCEPT ![sid] = @ \o segments]
           /\ sent' = EmitSegments(Nothing, segments, {}, sender)
           /\ errorLog' = IF outcome.kind = "failed"
                           THEN [errorLog EXCEPT ![sid] = @ \cup {chunkIndex}]
                           ELSE errorLog
           /\ warnLog' = IF outcome.kind = "empty" THEN Warn(sid, chunkIndex) ELSE NoWarn
    /\ UNCHANGED <<conn, activeSessions, rooms>>

\* the same step, were the segments sent with io.emit to every connection
ChunkProcessed_ToAll(s, sid, chunkIndex, outcome, maxEmitted) ==
    /\ calls[Call(s, sid, chunkIndex)] > 0
    /\ LET segments == processAudioChunk(chunkIndex, outcome)
           sender == IF Open(s) THEN {s} ELSE {}
       IN  /\ Len(emitted[sid]) + Len(segments) <= maxEmitted
           /\ calls' = [calls EXCEPT ![Call(s, sid, chunkIndex)] = @ - 1]
           /\ emitted' = [emitted EXCEPT ![sid] = @ \o segments]
           /\ sent' = EmitSegments(Nothing, segments, {r \in Sockets : Open(r)}, sender)
           /\ errorLog' = IF outcome.kind = "failed"
                           THEN [errorLog EXCEPT ![sid] = @ \cup {chunkIndex}]
                           ELSE errorLog
           /\ warnLog' = IF outcome.kind = "empty" THEN Warn(sid, chunkIndex) ELSE NoWarn
    /\ UNCHANGED <<conn, activeSessions, rooms>>

\* socket.on('audio-chunk'), after the await: the call of one invocation
\* (s, sid, chunkIndex) resolves with `outcome`
ChunkProcessed(s, sid, chunkIndex, outcome, maxEmitted) ==
    /\ calls[Call(s, sid, chunkIndex)] > 0
    /\ LET segments == processAudioChunk(chunkIndex, outcome)
           sender == IF Open(s) THEN {s} ELSE {}
       IN  /\ Len(emitted[sid]) + Len(segments) <= maxEmitted
           /\ calls' = [calls EXCEPT ![Call(s, sid, chunkIndex)] = @ - 1]
           /\ emitted' = [emitted EXCEPT ![sid] = @ \o segments]
           /\ sent' = EmitSegments(Nothing, segments, rooms[sid], sender)
           /\ errorLog' = IF outcome.kind = "failed"
                           THEN [errorLog EXCEPT ![sid] = @ \cup {chunkIndex}]
                           ELSE errorLog
           /\ warnLog' = IF outcome.kind = "empty" THEN Warn(sid, chunkIndex) ELSE NoWarn
    /\ UNCHANGED <<conn, activeSessions, rooms>>

\* socket.on('pause-recording')
PauseRecording(s, sid) ==
    /\ Open(s)
    /\ sent' = Deliver(Nothing, rooms[sid], SessionEvent("recording-paused", sid))
    /\ UNCHANGED <<conn, activeSessions, rooms, calls, emitted, errorLog>>
    /\ warnLog' = NoWarn

\* socket.on('resume-recording')
ResumeRecording(s, sid) ==
    /\ Open(s)
    /\ sent' = Deliver(Nothing, rooms[sid], SessionEvent("recording-resumed", sid))
    /\ UNCHANGED <<conn, activeSessions, rooms, calls, emitted, errorLog>>
    /\ warnLog' = NoWarn

\* socket.on('stop-recording')
StopRecording(s, sid) ==
    /\ Open(s)
    /\ IF activeSessions[sid] = NoSession
       THEN /\ sent' = Nothing
            /\ UNCHANGED activeSessions
       ELSE /\ sent' = Deliver(Nothing, rooms[sid], SessionEvent("processing-complete", sid))
            /\ activeSessions' = [activeSessions EXCEPT ![sid] = NoSession]
    /\ UNCHANGED <<conn, rooms, calls, emitted, errorLog>>
    /\ warnLog' = NoWarn

\* Disconnect that also empties the registry of active sessions.
Disconnect_ClearsRegistry(s) ==
    /\ Open(s)
    /\ conn' = [conn EXCEPT ![s] = "closed"]
    /\ rooms' = [sid \in SessionIds |-> rooms[sid] \ {s}]
    /\ sent' = Nothing
    /\ activeSessions' = [sid \in SessionIds |-> NoSession]
    /\ UNCHANGED <<calls, emitted, errorLog>>
    /\ warnLog' = NoWarn

\* socket.on('disconnect'): socket.io removes the socket from its rooms
Disconnect(s) ==
    /\ Open(s)
    /\ conn' = [conn EXCEPT ![s] = "closed"]
    /\ rooms' = [sid \in SessionIds |-> rooms[sid] \ {s}]
    /\ sent' = Nothing
    /\ UNCHANGED <<activeSessions, calls, emitted, errorLog>>
    /\ warnLog' = NoWarn

\* The handlers, for the connections of `socks` and messages that name the
\* sessions of `sids` and the chunk indices of `indices`, with at most `limit`
\* transcription calls in flight and `maxEmitted` segments per session.
Handlers(socks, sids, indices, limit, maxEmitted) ==
    \/ \E s \in socks : Connect(s) /\ UNCHANGED <<dbVars, summaryJob, client, transcription, capture, socketClient, stamp, stored>>
    \/ \E s \in socks, sid \in sids, data \in StartData :
          StartRecording(s, sid, data) /\ UNCHANGED <<dbVars, summaryJob, client, transcription, capture, socketClient, stamp, stored>>
    \/ \E s \in socks, sid \in sids, k \in indices, p \in Payloads :
          AudioChunk(s, sid, k, p, limit) /\ UNCHANGED <<dbVars, summaryJob, client, transcription, capture, socketClient, stamp, stored>>
    \/ \E s \in socks, sid \in sids, k \in indices, o \in Outcomes :
          ChunkProcessed(s, sid, k, o, maxEmitted) /\ UNCHANGED <<dbVars, summaryJob, client, transcription, capture, socketClient, stamp, stored>>
    \/ \E s \in socks, sid \in sids : PauseRecording(s, sid) /\ UNCHANGED <<dbVars, summaryJob, client, transcription, capture, socketClient, stamp, stored>>
    \/ \E s \in socks, sid \in sids : ResumeRecording(s, sid) /\ UNCHANGED <<dbVars, summaryJob, client, transcription, capture, socketClient, stamp, stored>>
    \/ \E s \in socks, sid \in sids : StopRecording(s, sid) /\ UNCHANGED <<dbVars, summaryJob, client, transcription, capture, socketClient, stamp, stored>>
    \/ \E s \in socks : Disconnect(s) /\ UNCHANGED <<dbVars, summaryJob, client, transcription, capture, socketClient, stamp, stored>>

Next == Handlers(Sockets, SessionIds, 0..MaxChunkIndexWide, MaxCallsWide, MaxEmittedWide)

Spec == Init /\ [][Next]_vars

\* Spec with progress: the server does not stop while it has a message or an
\* answer of the capability to handle. Nothing obliges a client to send a
\* particular message, nor the capability to answer a particular call.
SpecLive == Spec /\ WF_vars(Next)

NextOrder == Handlers({"s1"}, {"A"}, ChunkIndices, MaxCalls, MaxEmitted)

SpecOrder == Init /\ [][NextOrder]_vars

----------------------------------------------------------------------------
(* The database-backed server: the session status lives in the row, the      *)
(* registry is keyed by socket.id, and every handler awaits its queries.     *)

Rows == 1..MaxRows

Task(s, handler, pc, row, chunkIndex) ==
    [socket |-> s, handler |-> handler, pc |-> pc, row |-> row, chunkIndex |-> chunkIndex,
     userId |-> "none", found |-> "none"]

\* data.userId of 'start-session' and 'reconnect-session'
Users == {"u1", "u2"}

\* socket.emit: nothing is delivered once the socket is closed
Emit(s, ev) == Deliver(Nothing, IF Open(s) THEN {s} ELSE {}, ev)

Spawn(t) == Cardinality(tasks) < MaxTasks /\ t \notin tasks /\ tasks' = tasks \cup {t}
Move(t, pc) == tasks' = (tasks \ {t}) \cup {[t EXCEPT !.pc = pc]}
Finish(t) == tasks' = tasks \ {t}
SetStatus(row, status) == dbStatus' = [dbStatus EXCEPT ![row] = status]

\* socket.on('start-session'), up to await prisma.recordingSession.create
StartSession(s, userId) ==
    /\ Open(s)
    /\ Cardinality({r \in Rows : dbStatus[r] # "none"})
         + Cardinality({t \in tasks : t.handler = "start"}) < MaxRows
    /\ Spawn([Task(s, "start", "create", 0, 0) EXCEPT !.userId = userId])
    /\ sent' = Nothing
    /\ UNCHANGED <<conn, dbStatus, dbActiveSessions>>
    /\ UNCHANGED dbUserId

\* socket.on('start-session'), after the create
SessionCreated(t, ok) ==
    /\ t \in tasks /\ t.handler = "start"
    /\ Finish(t)
    /\ IF ok
       THEN LET row == CHOOSE r \in Rows :
                           dbStatus[r] = "none" /\ \A q \in 1..(r - 1) : dbStatus[q] # "none"
            IN  /\ SetStatus(row, "recording")
                /\ dbUserId' = [dbUserId EXCEPT ![row] = t.userId]
                /\ dbActiveSessions' = [dbActiveSessions EXCEPT ![t.socket] = row]
                /\ sent' = Emit(t.socket, SessionEvent("session-started", row))
       ELSE /\ sent' = Emit(t.socket, ErrorEvent("Failed to start session"))
            /\ UNCHANGED <<dbStatus, dbUserId, dbActiveSessions>>
    /\ UNCHANGED conn

\* socket.on('audio-chunk'), up to await prisma.audioChunk.create
StoreChunk(s, chunkIndex) ==
    /\ Open(s)
    /\ IF dbActiveSessions[s] = 0
       THEN /\ sent' = Emit(s, ErrorEvent("No active session"))
            /\ UNCHANGED tasks
       ELSE /\ Spawn(Task(s, "chunk", "store", dbActiveSessions[s], chunkIndex))
            /\ sent' = Nothing
    /\ UNCHANGED <<conn, dbStatus, dbActiveSessions>>
    /\ UNCHANGED dbUserId

\* socket.on('audio-chunk'): the chunk is stored, await processAudioChunk
ChunkStored(t, ok) ==
    /\ t \in tasks /\ t.handler = "chunk" /\ t.pc = "store"
    /\ IF ok
       THEN /\ Move(t, "transcribe")
            /\ sent' = Nothing
       ELSE /\ Finish(t)
            /\ sent' = Emit(t.socket, ErrorEvent("Failed to process audio chunk"))
    /\ UNCHANGED <<conn, dbStatus, dbActiveSessions>>
    /\ UNCHANGED dbUserId

\* socket.on('audio-chunk'): processAudioChunk resolved; a segment is marked
\* processed (await prisma.audioChunk.update) and emitted to the socket
ChunkTranscribed(t, outcome, ok) ==
    /\ t \in tasks /\ t.handler = "chunk" /\ t.pc = "transcribe"
    /\ Finish(t)
    /\ sent' = IF processAudioChunk(t.chunkIndex, outcome) = <<>>
               THEN Nothing
               ELSE IF ok
               THEN Emit(t.socket, [type |-> "transcription-update",
                                    sessionId |-> t.row,
                                    chunkIndex |-> t.chunkIndex])
               ELSE Emit(t.socket, ErrorEvent("Failed to process audio chunk"))
    /\ UNCHANGED <<conn, dbStatus, dbActiveSessions>>
    /\ UNCHANGED dbUserId

\* socket.on('pause-session'), up to await prisma.recordingSession.update
PauseSession(s) ==
    /\ Open(s)
    /\ IF dbActiveSessions[s] = 0
       THEN UNCHANGED tasks
       ELSE Spawn(Task(s, "pause", "update", dbActiveSessions[s], 0))
    /\ sent' = Nothing
    /\ UNCHANGED <<conn, dbStatus, dbActiveSessions>>
    /\ UNCHANGED dbUserId

\* socket.on('pause-session'), after the update
SessionPaused(t, ok) ==
    /\ t \in tasks /\ t.handler = "pause"
    /\ Finish(t)
    /\ IF ok
       THEN /\ SetStatus(t.row, "paused")
            /\ sent' = Emit(t.socket, SessionEvent("session-paused", t.row))
       ELSE /\ sent' = Emit(t.socket, ErrorEvent("Failed to pause session"))
            /\ UNCHANGED dbStatus
    /\ UNCHANGED <<conn, dbActiveSessions>>
    /\ UNCHANGED dbUserId

\* socket.on('resume-session'), up to await prisma.recordingSession.update
ResumeSession(s) ==
    /\ Open(s)
    /\ IF dbActiveSessions[s] = 0
       THEN UNCHANGED tasks
       ELSE Spawn(Task(s, "resume", "update", dbActiveSessions[s], 0))
    /\ sent' = Nothing
    /\ UNCHANGED <<conn, dbStatus, dbActiveSessions>>
    /\ UNCHANGED dbUserId

\* socket.on('resume-session'), after the update
SessionResumed(t, ok) ==
    /\ t \in tasks /\ t.handler = "resume"
    /\ Finish(t)
    /\ IF ok
       THEN /\ SetStatus(t.row, "recording")
            /\ sent' = Emit(t.socket, SessionEvent("session-resumed", t.row))
       ELSE /\ sent' = Emit(t.socket, ErrorEvent("Failed to resume session"))
            /\ UNCHANGED dbStatus
    /\ UNCHANGED <<conn, dbActiveSessions>>
    /\ UNCHANGED dbUserId

\* socket.on('stop-session'), up to the first await (status: 'processing')
StopSession(s) ==
    /\ Open(s)
    /\ IF dbActiveSessions[s] = 0
       THEN UNCHANGED tasks
       ELSE Spawn(Task(s, "stop", "toProcessing", dbActiveSessions[s], 0))
    /\ sent' = Nothing
    /\ UNCHANGED <<conn, dbStatus, dbActiveSessions>>
    /\ UNCHANGED dbUserId

\* socket.on('stop-session'): one await resolves (ok) or rejects (not ok)
StopStep(t, ok) ==
    /\ t \in tasks /\ t.handler = "stop"
    /\ IF ~ok /\ t.pc # "toFailed"
       THEN \* catch: report, then await the update to 'failed'
            /\ Move(t, "toFailed")
            /\ sent' = Emit(t.socket, ErrorEvent("Failed to stop session"))
            /\ UNCHANGED <<dbStatus, dbActiveSessions>>
       ELSE CASE t.pc = "toProcessing" ->
                 /\ SetStatus(t.row, "processing")
                 /\ sent' = Emit(t.socket, SessionEvent("session-processing", t.row))
                 /\ Move(t, "summarizing")
                 /\ UNCHANGED dbActiveSessions
              [] t.pc = "summarizing" ->
                 \* transcript.findMany, generateSummary, audioChunk.findMany
                 /\ Move(t, "toCompleted")
                 /\ sent' = Nothing
                 /\ UNCHANGED <<dbStatus, dbActiveSessions>>
              [] t.pc = "toCompleted" ->
                 /\ SetStatus(t.row, "completed")
                 /\ sent' = Emit(t.socket, SessionEvent("session-completed", t.row))
                 /\ dbActiveSessions' = [dbActiveSessions EXCEPT ![t.socket] = 0]
                 /\ Finish(t)
              [] t.pc = "toFailed" ->
                 /\ IF ok THEN SetStatus(t.row, "failed") ELSE UNCHANGED dbStatus
                 /\ sent' = Nothing
                 /\ Finish(t)
                 /\ UNCHANGED dbActiveSessions
    /\ UNCHANGED conn
    /\ UNCHANGED dbUserId

\* socket.on('disconnect'), up to await prisma.recordingSession.update
DbDisconnect(s) ==
    /\ Open(s)
    /\ conn' = [conn EXCEPT ![s] = "closed"]
    /\ IF dbActiveSessions[s] = 0
       THEN UNCHANGED tasks
       ELSE Spawn(Task(s, "disconnect", "update", dbActiveSessions[s], 0))
    /\ sent' = Nothing
    /\ UNCHANGED <<dbStatus, dbActiveSessions>>
    /\ UNCHANGED dbUserId

\* socket.on('disconnect'), after the update (a rejection is only logged)
AutoPaused(t, ok) ==
    /\ t \in tasks /\ t.handler = "disconnect"
    /\ Finish(t)
    /\ IF ok THEN SetStatus(t.row, "paused") ELSE UNCHANGED dbStatus
    /\ dbActiveSessions' = [dbActiveSessions EXCEPT ![t.socket] = 0]
    /\ sent' = Nothing
    /\ UNCHANGED conn
    /\ UNCHANGED dbUserId

\* socket.on('reconnect-session'), up to await prisma.recordingSession.findUnique
ReconnectSession(s, row, userId) ==
    /\ Open(s)
    /\ Spawn([Task(s, "reconnect", "find", row, 0) EXCEPT !.userId = userId])
    /\ sent' = Nothing
    /\ UNCHANGED <<conn, dbStatus, dbUserId, dbActiveSessions>>

\* socket.on('reconnect-session'): the database answers the findUnique with
\* the row as it is now, or the query rejects (catch)
SessionFound(t, ok) ==
    /\ t \in tasks /\ t.handler = "reconnect" /\ t.pc = "find"
    /\ IF ok
       THEN /\ tasks' = (tasks \ {t}) \cup
                  {[t EXCEPT !.pc = "found",
                             !.found = IF dbUserId[t.row] = t.userId
                                       THEN dbStatus[t.row] ELSE "not the user's"]}
            /\ sent' = Nothing
       ELSE /\ Finish(t)
            /\ sent' = Emit(t.socket, ErrorEvent("Failed to reconnect"))
    /\ UNCHANGED <<conn, dbStatus, dbUserId, dbActiveSessions>>

\* socket.on('reconnect-session'), after the await: the session that was read
\* is attached to the socket when it exists, is the user's and is paused
Reconnected(t) ==
    /\ t \in tasks /\ t.handler = "reconnect" /\ t.pc = "found"
    /\ Finish(t)
    /\ IF t.found = "paused"
       THEN /\ dbActiveSessions' = [dbActiveSessions EXCEPT ![t.socket] = t.row]
            /\ sent' = Emit(t.socket, SessionEvent("session-reconnected", t.row))
       ELSE /\ sent' = Emit(t.socket, ErrorEvent("Cannot reconnect to session"))
            /\ UNCHANGED dbActiveSessions
    /\ UNCHANGED <<conn, dbStatus, dbUserId>>

\* POST /api/sessions/[id]/process, up to await prisma.recordingSession.findUnique
ProcessSession(row) ==
    /\ Spawn(Task("http", "process", "find", row, 0))
    /\ sent' = Nothing
    /\ UNCHANGED <<conn, dbStatus, dbActiveSessions>>
    /\ UNCHANGED dbUserId

\* POST /api/sessions/[id]/process: one await resolves (ok) or rejects (not ok)
ProcessStep(t, ok) ==
    /\ t \in tasks /\ t.handler = "process"
    /\ IF ~ok /\ t.pc # "toFailed"
       THEN \* catch: await the update to 'failed'
            /\ Move(t, "toFailed")
            /\ UNCHANGED dbStatus
       ELSE CASE t.pc = "find" ->
                 \* 404 when there is no such session
                 /\ IF dbStatus[t.row] = "none" THEN Finish(t) ELSE Move(t, "toProcessing")
                 /\ UNCHANGED dbStatus
              [] t.pc = "toProcessing" ->
                 /\ SetStatus(t.row, "processing")
                 /\ Move(t, "summarizing")
              [] t.pc = "summarizing" ->
                 \* generateSummary, extractActionItems
                 /\ Move(t, "toCompleted")
                 /\ UNCHANGED dbStatus
              [] t.pc = "toCompleted" ->
                 /\ SetStatus(t.row, "completed")
                 /\ Finish(t)
              [] t.pc = "toFailed" ->
                 \* the update of a row that does not exist rejects
                 /\ IF ok /\ dbStatus[t.row] # "none"
                    THEN SetStatus(t.row, "failed") ELSE UNCHANGED dbStatus
                 /\ Finish(t)
    /\ sent' = Nothing
    /\ UNCHANGED <<conn, dbActiveSessions>>
    /\ UNCHANGED dbUserId

serverVars == <<activeSessions, rooms, calls, emitted, errorLog, warnLog>>

\* The handlers of the database-backed server, for the connections of `socks`
\* and chunks numbered in `indices`.
DbHandlers(socks, indices, users) ==
    \/ \E s \in socks : Connect(s) /\ UNCHANGED <<dbVars, summaryJob, client, transcription, capture, socketClient, stamp, stored>>
    \/ \E s \in socks, u \in users : StartSession(s, u) /\ UNCHANGED <<serverVars, summaryJob, client, transcription, capture, socketClient, stamp, stored>>
    \/ \E t \in tasks, ok \in BOOLEAN : SessionCreated(t, ok) /\ UNCHANGED <<serverVars, summaryJob, client, transcription, capture, socketClient, stamp, stored>>
    \/ \E s \in socks, k \in indices : StoreChunk(s, k) /\ UNCHANGED <<serverVars, summaryJob, client, transcription, capture, socketClient, stamp, stored>>
    \/ \E t \in tasks, ok \in BOOLEAN : ChunkStored(t, ok) /\ UNCHANGED <<serverVars, summaryJob, client, transcription, capture, socketClient, stamp, stored>>
    \/ \E t \in tasks, o \in Outcomes, ok \in BOOLEAN :
          ChunkTranscribed(t, o, ok) /\ UNCHANGED <<serverVars, summaryJob, client, transcription, capture, socketClient, stamp, stored>>
    \/ \E s \in socks : PauseSession(s) /\ UNCHANGED <<serverVars, summaryJob, client, transcription, capture, socketClient, stamp, stored>>
    \/ \E t \in tasks, ok \in BOOLEAN : SessionPaused(t, ok) /\ UNCHANGED <<serverVars, summaryJob, client, transcription, capture, socketClient, stamp, stored>>
    \/ \E s \in socks : ResumeSession(s) /\ UNCHANGED <<serverVars, summaryJob, client, transcription, capture, socketClient, stamp, stored>>
    \/ \E t \in tasks, ok \in BOOLEAN : SessionResumed(t, ok) /\ UNCHANGED <<serverVars, summaryJob, client, transcription, capture, socketClient, stamp, stored>>
    \/ \E s \in socks : StopSession(s) /\ UNCHANGED <<serverVars, summaryJob, client, transcription, capture, socketClient, stamp, stored>>
    \/ \E t \in tasks, ok \in BOOLEAN : StopStep(t, ok) /\ UNCHANGED <<serverVars, summaryJob, client, transcription, capture, socketClient, stamp, stored>>
    \/ \E s \in socks : DbDisconnect(s) /\ UNCHANGED <<serverVars, summaryJob, client, transcription, capture, socketClient, stamp, stored>>
    \/ \E t \in tasks, ok \in BOOLEAN : AutoPaused(t, ok) /\ UNCHANGED <<serverVars, summaryJob, client, transcription, capture, socketClient, stamp, stored>>
    \/ \E row \in Rows : ProcessSession(row) /\ UNCHANGED <<serverVars, summaryJob, client, transcription, capture, socketClient, stamp, stored>>
    \/ \E t \in tasks, ok \in BOOLEAN : ProcessStep(t, ok) /\ UNCHANGED <<serverVars, summaryJob, client, transcription, capture, socketClient, stamp, stored>>

NextDb == DbHandlers(Sockets, 0..MaxChunkIndexWide, {"u1"})

SpecDb == Init /\ [][NextDb]_vars

\* The same server with its 'reconnect-session' handler: socket "s1" of user
\* "u1" records, and socket "s2" asks to be re-attached, in any user's name.
NextReconnect ==
    \/ DbHandlers({"s1"}, 0..MaxChunkIndexWide, {"u1"})
    \/ Connect("s2") /\ UNCHANGED <<dbVars, summaryJob, client, transcription, capture, socketClient, stamp, stored>>
    \/ \E row \in Rows, u \in Users :
          ReconnectSession("s2", row, u) /\ UNCHANGED <<serverVars, summaryJob, client, transcription, capture, socketClient, stamp, stored>>
    \/ \E t \in tasks, ok \in BOOLEAN :
          SessionFound(t, ok) /\ UNCHANGED <<serverVars, summaryJob, client, transcription, capture, socketClient, stamp, stored>>
    \/ \E t \in tasks : Reconnected(t) /\ UNCHANGED <<serverVars, summaryJob, client, transcription, capture, socketClient, stamp, stored>>

SpecReconnect == Init /\ [][NextReconnect]_vars

----------------------------------------------------------------------------
(* The recording page of socket "s1" and the room-based server. A message   *)
(* the page emits is handled by the server in the same step, and so is the   *)
(* delivery of the events a server step sends to the page.                   *)

Page == "s1"

\* the id of the page's next session: `session_${Date.now()}_${random}`, new
\* each time
NextSessionId == IF client.sessionId = "none" THEN "A" ELSE "B"

\* socket.on('transcript-segment', handleTranscript) -> onTranscriptUpdate:
\* every 'transcript-segment' event delivered to the page is appended
Received(box) == SelectSeq(box[Page], LAMBDA ev : ev.type = "transcript-segment")
onTranscriptUpdate(box) == [client EXCEPT !.transcripts = @ \o Received(box)]

\* handleStart with startRecording (the button is disabled while disconnected)
HandleStart(data) ==
    /\ client.sessionState = "idle"
    /\ client.sessionId # "B"
    /\ StartRecording(Page, NextSessionId, data)
    /\ client' = [client EXCEPT !.sessionState = "recording",
                                !.sessionId = NextSessionId,
                                !.transcripts = <<>>,
                                !.chunkCount = 0,
                                !.recorder = "recording"]

\* mediaRecorder.ondataavailable: the chunk is numbered and sent; a recorder
\* that was stopped delivers the data it still holds, then nothing more
DataAvailable ==
    /\ client.recorder \in {"recording", "stopping"}
    /\ client.chunkCount < MaxClientChunks
    /\ AudioChunk(Page, client.sessionId, client.chunkCount, "bytes", MaxCalls)
    /\ client' = [client EXCEPT
           !.chunkCount = @ + 1,
           !.recorder = IF @ = "stopping" THEN "inactive" ELSE @]

\* the 'audio-chunk' handler after its await, and the page receiving the
\* segments it sends
SegmentsDelivered(sid, chunkIndex, outcome) ==
    /\ ChunkProcessed(Page, sid, chunkIndex, outcome, MaxEmitted)
    /\ client' = onTranscriptUpdate(sent')

\* handlePause with pauseRecording
HandlePause ==
    /\ client.sessionState = "recording"
    /\ PauseRecording(Page, client.sessionId)
    /\ client' = [client EXCEPT !.sessionState = "paused", !.recorder = "paused"]

\* handleResume with resumeRecording
HandleResume ==
    /\ client.sessionState = "paused"
    /\ ResumeRecording(Page, client.sessionId)
    /\ client' = [client EXCEPT !.sessionState = "recording", !.recorder = "recording"]

\* handleStop up to await fetch('/api/sessions/generate-summary'):
\* stopRecording emits 'stop-recording', the transcript is read from the store
HandleStop_Begin ==
    /\ client.sessionState \in {"recording", "paused"}
    /\ StopRecording(Page, client.sessionId)
    /\ client' = [client EXCEPT !.sessionState = "processing",
                                !.recorder = "stopping",
                                !.transcriptsToUse = client.transcripts,
                                !.pc = "summary"]

\* handleStop: the summary request answers (ok or not, a summary is set either
\* way) or rejects (catch: back to 'idle')
HandleStop_Summarized(response) ==
    /\ client.pc = "summary"
    /\ client' = IF response = "throws"
                 THEN [client EXCEPT !.sessionState = "idle", !.pc = "none"]
                 ELSE [client EXCEPT !.pc = "save"]
    /\ sent' = Nothing
    /\ UNCHANGED <<conn, serverVars>>

\* handleStop: the save request (skipped without a user) answers or rejects
HandleStop_Saved(response) ==
    /\ client.pc = "save"
    /\ client' = IF response = "throws"
                 THEN [client EXCEPT !.sessionState = "idle", !.pc = "none"]
                 ELSE [client EXCEPT !.sessionState = "completed", !.pc = "none"]
    /\ sent' = Nothing
    /\ UNCHANGED <<conn, serverVars>>

\* handleReset
HandleReset ==
    /\ client.sessionState = "completed"
    /\ client' = [client EXCEPT !.sessionState = "idle", !.transcripts = <<>>]
    /\ sent' = Nothing
    /\ UNCHANGED <<conn, serverVars>>

Responses == {"ok", "not ok", "throws"}

NextClient ==
    \/ Connect(Page) /\ UNCHANGED <<dbVars, summaryJob, client, transcription, capture, socketClient, stamp, stored>>
    \/ \E data \in StartData : HandleStart(data) /\ UNCHANGED <<dbVars, summaryJob, transcription, capture, socketClient, stamp, stored>>
    \/ DataAvailable /\ UNCHANGED <<dbVars, summaryJob, transcription, capture, socketClient, stamp, stored>>
    \/ \E sid \in SessionIds, k \in 0..(MaxClientChunks - 1), o \in Outcomes :
          SegmentsDelivered(sid, k, o) /\ UNCHANGED <<dbVars, summaryJob, transcription, capture, socketClient, stamp, stored>>
    \/ HandlePause /\ UNCHANGED <<dbVars, summaryJob, transcription, capture, socketClient, stamp, stored>>
    \/ HandleResume /\ UNCHANGED <<dbVars, summaryJob, transcription, capture, socketClient, stamp, stored>>
    \/ HandleStop_Begin /\ UNCHANGED <<dbVars, summaryJob, transcription, capture, socketClient, stamp, stored>>
    \/ \E r \in Responses : HandleStop_Summarized(r) /\ UNCHANGED <<dbVars, summaryJob, transcription, capture, socketClient, stamp, stored>>
    \/ \E r \in Responses : HandleStop_Saved(r) /\ UNCHANGED <<dbVars, summaryJob, transcription, capture, socketClient, stamp, stored>>
    \/ HandleReset /\ UNCHANGED <<dbVars, summaryJob, transcription, capture, socketClient, stamp, stored>>

SpecClient == Init /\ [][NextClient]_vars

----------------------------------------------------------------------------
(* The summary producers *)

\* generateSummary(fullTranscript), up to its return or to await ai.generate.
\* An array argument is truthy and has no trim method: the TypeError is caught
\* by the function's own catch block.
GenerateSummary(caller, input) ==
    /\ summaryJob.pc = "idle"
    /\ summaryJob' =
          IF input.array
          THEN Job(caller, input, "done", FALSE, FailedText)
          ELSE IF input.text = <<>> \/ Len(Trim(input.text)) = 0
          THEN Job(caller, input, "done", FALSE, NoTranscriptionText)
          ELSE Job(caller, input, "awaiting", TRUE, NoSummary)

\* socket.on('stop-session') and POST /api/sessions/[id]/process:
\* generateSummary(transcripts) on the rows of prisma.transcript.findMany
StopSessionSummary(rows) == GenerateSummary("stop-session", ArrayOf(rows))

\* generateSummary, after await ai.generate
SummaryGenerated(outcome) ==
    /\ summaryJob.pc = "awaiting"
    /\ summaryJob.caller \in {"generateSummary", "stop-session"}
    /\ summaryJob' = [summaryJob EXCEPT
           !.pc = "done",
           !.summary = CASE outcome = "text" -> AiText
                         [] outcome = "throws" -> FailedText
                         [] outcome = "malformed" -> UndefinedSummary]

\* POST /api/sessions/generate-summary, up to its 400 response or to await
\* ai.generate; the client's handleStop turns a response that is not ok into
\* its own text
PostGenerateSummary(caller, input) ==
    /\ summaryJob.pc = "idle"
    /\ summaryJob' =
          IF Len(input.text) < MinTranscriptLength
          THEN Job(caller, input, "done", FALSE,
                   IF caller = "handleStop" THEN SessionRecorded(input.rows)
                                            ELSE ValidationFailed)
          ELSE Job(caller, input, "awaiting", TRUE, NoSummary)

\* RecordingInterfaceStream.handleStop, up to the response of the route
HandleStop(transcripts) ==
    PostGenerateSummary("handleStop",
        [array |-> FALSE, text |-> JoinLines(transcripts), rows |-> Len(transcripts)])

\* POST /api/sessions/generate-summary, after await ai.generate (a rejection
\* is answered with the fallback summary, status 200)
SummaryPosted(outcome) ==
    /\ summaryJob.pc = "awaiting"
    /\ summaryJob.caller \in {"POST", "handleStop"}
    /\ summaryJob' = [summaryJob EXCEPT
           !.pc = "done",
           !.summary = CASE outcome = "text" -> AiText
                         [] outcome = "throws" ->
                              FallbackSummary(WordCount(summaryJob.input.text))
                         [] outcome = "malformed" -> UnparsedSummary]

NextSummary ==
    \/ \E t \in Texts : GenerateSummary("generateSummary", String(t))
          /\ UNCHANGED <<conn, sent, serverVars, dbVars, client, transcription, capture, socketClient, stamp, stored>>
    \/ \E rows \in 0..MaxTranscripts : StopSessionSummary(rows)
          /\ UNCHANGED <<conn, sent, serverVars, dbVars, client, transcription, capture, socketClient, stamp, stored>>
    \/ \E o \in AiOutcomes : SummaryGenerated(o)
          /\ UNCHANGED <<conn, sent, serverVars, dbVars, client, transcription, capture, socketClient, stamp, stored>>
    \/ \E t \in Texts : PostGenerateSummary("POST", String(t))
          /\ UNCHANGED <<conn, sent, serverVars, dbVars, client, transcription, capture, socketClient, stamp, stored>>
    \/ \E transcripts \in ClientTranscripts : HandleStop(transcripts)
          /\ UNCHANGED <<conn, sent, serverVars, dbVars, client, transcription, capture, socketClient, stamp, stored>>
    \/ \E o \in AiOutcomes : SummaryPosted(o)
          /\ UNCHANGED <<conn, sent, serverVars, dbVars, client, transcription, capture, socketClient, stamp, stored>>

SpecSummary == Init /\ [][NextSummary]_vars

----------------------------------------------------------------------------
(* The capture hooks: mediaRecorder.ondataavailable and the conversion *)

Hooks == {"useAudioStream", "useAudioRecorder"}

\* index of a chunk whose message does not have one yet
Unassigned == 0 - 1

\* startRecording: the counter is reset and the MediaRecorder started
StartCapture(hook) ==
    /\ capture.hook = "none"
    /\ capture' = Capture(hook, 0, 0, {}, <<>>)

\* mediaRecorder.ondataavailable with data: useAudioStream takes the index
\* from its counter at once, useAudioRecorder leaves that to onloadend; both
\* start the conversion of the chunk
OnDataAvailable ==
    /\ capture.hook # "none"
    /\ capture.produced < MaxCaptured
    /\ capture' =
          IF capture.hook = "useAudioStream"
          THEN [capture EXCEPT
                   !.produced = @ + 1,
                   !.ref = @ + 1,
                   !.reading = @ \cup {[n |-> capture.produced, chunkIndex |-> capture.ref]}]
          ELSE [capture EXCEPT
                   !.produced = @ + 1,
                   !.reading = @ \cup {[n |-> capture.produced, chunkIndex |-> Unassigned]}]

\* the conversion of one chunk ends, in any order: arrayBuffer().then emits the
\* chunk with the index taken earlier; reader.onloadend emits it with the
\* counter's value and increments the counter
Converted(r) ==
    /\ r \in capture.reading
    /\ capture' =
          IF capture.hook = "useAudioStream"
          THEN [capture EXCEPT
                   !.reading = @ \ {r},
                   !.sentChunks = Append(@, r)]
          ELSE [capture EXCEPT
                   !.reading = @ \ {r},
                   !.sentChunks = Append(@, [n |-> r.n, chunkIndex |-> capture.ref]),
                   !.ref = @ + 1]

\* the conversion fails: .catch logs; onloadend finds no result and throws
\* before it emits or increments
ConversionFailed(r) ==
    /\ r \in capture.reading
    /\ capture' = [capture EXCEPT !.reading = @ \ {r}]

NextCapture ==
    \/ \E h \in Hooks : StartCapture(h)
          /\ UNCHANGED <<conn, sent, serverVars, dbVars, summaryJob, client, transcription,
                         socketClient, stamp, stored>>
    \/ OnDataAvailable
          /\ UNCHANGED <<conn, sent, serverVars, dbVars, summaryJob, client, transcription,
                         socketClient, stamp, stored>>
    \/ \E r \in capture.reading : Converted(r)
          /\ UNCHANGED <<conn, sent, serverVars, dbVars, summaryJob, client, transcription,
                         socketClient, stamp, stored>>
    \/ \E r \in capture.reading : ConversionFailed(r)
          /\ UNCHANGED <<conn, sent, serverVars, dbVars, summaryJob, client, transcription,
                         socketClient, stamp, stored>>

SpecCapture == Init /\ [][NextCapture]_vars

----------------------------------------------------------------------------
(* processAudioChunk, from the capability's text to the segments *)

OutputChars == {"[", "]", ":", " ", "a", "\n"}
OutputTexts == UNION {[1..n -> OutputChars] : n \in 0..MaxOutputLen}

\* String.prototype.split('\n')
RECURSIVE Split(_)
Split(t) ==
    IF \A i \in 1..Len(t) : t[i] # "\n"
    THEN <<t>>
    ELSE LET i == CHOOSE i \in 1..Len(t) : t[i] = "\n" /\ \A j \in 1..(i - 1) : t[j] # "\n"
         IN  <<SubSeq(t, 1, i - 1)>> \o Split(SubSeq(t, i + 1, Len(t)))

NonBlank(line) == Trim(line) # <<>>

\* transcriptionText.split('\n').filter((line) => line.trim())
Lines(t) == SelectSeq(Split(t), NonBlank)

\* the label of a line that does not carry one
Speaker1 == <<"Speaker 1">>

\* line.match(/^\[(.*?)\]:\s*(.+)$/): the positions at which the lazy first
\* group can end, "]:" following with at least one more character after it
Closers(line) == {i \in 2..(Len(line) - 2) : line[i] = "]" /\ line[i + 1] = ":"}

\* one turn of the loop over the lines: the segment pushed for the line
ParseLine(line) ==
    IF line # <<>> /\ line[1] = "[" /\ Closers(line) # {}
    THEN LET i == CHOOSE i \in Closers(line) : \A j \in Closers(line) : i <= j
             rest == SubSeq(line, i + 2, Len(line))
             \* \s* is greedy but leaves (.+) one character
             group2 == IF TrimStart(rest) = <<>> THEN <<rest[Len(rest)]>>
                       ELSE TrimStart(rest)
         IN  [speaker |-> Trim(SubSeq(line, 2, i - 1)), text |-> Trim(group2)]
    ELSE [speaker |-> Speaker1, text |-> Trim(line)]

\* the array `segments` once the loop and the test of its length are over
ParsedSegments(t) ==
    LET lines == Lines(t)
    IN  IF lines = <<>>
        THEN <<[speaker |-> Speaker1, text |-> Trim(t)]>>
        ELSE [i \in 1..Len(lines) |-> ParseLine(lines[i])]

\* segments.map(...) of transcription.js: one object per parsed segment
SegmentsJs(t, chunkIndex) ==
    LET segments == ParsedSegments(t)
    IN  [i \in 1..Len(segments) |->
            [speaker    |-> segments[i].speaker,
             text       |-> segments[i].text,
             startTime  |-> chunkIndex * ChunkDurationMs + (i - 1) * SegmentOffsetMs,
             chunkIndex |-> chunkIndex]]

\* segments.map((s) => `[${s.speaker}]: ${s.text}`).join(' ')
RECURSIVE CombinedText(_)
CombinedText(segments) ==
    IF segments = <<>> THEN <<>>
    ELSE LET s == Head(segments)
             one == <<"[">> \o s.speaker \o <<"]", ":", " ">> \o s.text
         IN  IF Tail(segments) = <<>> THEN one
             ELSE one \o <<" ">> \o CombinedText(Tail(segments))

\* the single object transcription.ts returns, as the one-element array its
\* caller makes of it
SegmentsTs(t, chunkIndex) ==
    LET segments == ParsedSegments(t)
    IN  <<[speaker    |-> segments[1].speaker,
           text       |-> CombinedText(segments),
           startTime  |-> chunkIndex * ChunkDurationMs,
           chunkIndex |-> chunkIndex]>>

Variants == {"js", "ts"}

\* processAudioChunk when ai.generate returned text t: null (no segments) for
\* an empty or whitespace-only text, else the parsed segments
TextTranscribed(variant, chunkIndex, t) ==
    /\ transcription.pc = "idle"
    /\ transcription' =
          Transcription(variant, "returned", t,
              IF Trim(t) = <<>> THEN <<>>
              ELSE IF variant = "js" THEN SegmentsJs(t, chunkIndex)
                   ELSE SegmentsTs(t, chunkIndex))

\* processAudioChunk when ai.generate threw: the catch returns null
TranscriptionThrew(variant) ==
    /\ transcription.pc = "idle"
    /\ transcription' = Transcription(variant, "threw", <<>>, <<>>)

\* (the test of pc ahead of the quantifier spares the enumeration of the
\* texts in the states where no call can start)
NextParse ==
    \/ /\ transcription.pc = "idle"
       /\ \E v \in Variants, k \in 0..MaxChunkIndexWide, t \in OutputTexts :
             TextTranscribed(v, k, t)
       /\ UNCHANGED <<conn, sent, serverVars, dbVars, summaryJob, client, capture, socketClient, stamp, stored>>
    \/ \E v \in Variants : TranscriptionThrew(v)
             /\ UNCHANGED <<conn, sent, serverVars, dbVars, summaryJob, client, capture, socketClient, stamp, stored>>

SpecParse == Init /\ [][NextParse]_vars

----------------------------------------------------------------------------
(* socket-client.ts: the socket of the browser *)

Live == {"connecting", "connected", "reconnecting"}

\* the effect of useAudioStream: getSocket(), then socketRef.current = socket.
\* getSocket makes a socket with io(..., autoConnect) when globalSocket is null
\* or its connected flag is false, and returns globalSocket
GetSocket ==
    LET g == socketClient.globalSocket
    IN  IF g = 0 \/ socketClient.state[g] # "connected"
        THEN \E id \in SocketIds :
                /\ socketClient.state[id] = "none"
                /\ \A j \in SocketIds : j < id => socketClient.state[j] # "none"
                /\ socketClient' = SocketClient(id,
                                       [socketClient.state EXCEPT ![id] = "connecting"], id)
        ELSE socketClient' = [socketClient EXCEPT !.socketRef = g]

\* the transport of a socket opens: its connected flag becomes true
SocketConnected(id) ==
    /\ socketClient.state[id] \in {"connecting", "reconnecting"}
    /\ socketClient' = [socketClient EXCEPT !.state[id] = "connected"]

\* the transport of a socket drops: reconnection: true makes it try again
ConnectionLost(id) ==
    /\ socketClient.state[id] = "connected"
    /\ socketClient' = [socketClient EXCEPT !.state[id] = "reconnecting"]

\* reconnectionAttempts: 10 are used up
ReconnectFailed(id) ==
    /\ socketClient.state[id] \in {"connecting", "reconnecting"}
    /\ socketClient' = [socketClient EXCEPT !.state[id] = "closed"]

\* disconnectSocket()
DisconnectSocket ==
    /\ socketClient.globalSocket # 0
    /\ socketClient' = [socketClient EXCEPT !.state[socketClient.globalSocket] = "closed",
                                            !.globalSocket = 0]

\* cleanup() of the hook: socketRef.current?.disconnect(); socketRef.current = null
Cleanup ==
    /\ socketClient.socketRef # 0
    /\ socketClient' = [socketClient EXCEPT !.state[socketClient.socketRef] = "closed",
                                            !.socketRef = 0]

NextSocket ==
    \/ GetSocket
          /\ UNCHANGED <<conn, sent, serverVars, dbVars, summaryJob, client, transcription,
                         capture, stamp, stored>>
    \/ \E id \in SocketIds : SocketConnected(id)
          /\ UNCHANGED <<conn, sent, serverVars, dbVars, summaryJob, client, transcription,
                         capture, stamp, stored>>
    \/ \E id \in SocketIds : ConnectionLost(id)
          /\ UNCHANGED <<conn, sent, serverVars, dbVars, summaryJob, client, transcription,
                         capture, stamp, stored>>
    \/ \E id \in SocketIds : ReconnectFailed(id)
          /\ UNCHANGED <<conn, sent, serverVars, dbVars, summaryJob, client, transcription,
                         capture, stamp, stored>>
    \/ DisconnectSocket
          /\ UNCHANGED <<conn, sent, serverVars, dbVars, summaryJob, client, transcription,
                         capture, stamp, stored>>
    \/ Cleanup
          /\ UNCHANGED <<conn, sent, serverVars, dbVars, summaryJob, client, transcription,
                         capture, stamp, stored>>

SpecSocket == Init /\ [][NextSocket]_vars

----------------------------------------------------------------------------
(* formatTimestamp and the times processAudioChunk gives the segments *)

DigitChars == <<"0", "1", "2", "3", "4", "5", "6", "7", "8", "9">>

\* Number.prototype.toString of a non-negative integer
RECURSIVE toString(_)
toString(n) ==
    IF n < 10 THEN <<DigitChars[n + 1]>>
    ELSE toString(n \div 10) \o <<DigitChars[(n % 10) + 1]>>

\* String.prototype.padStart(targetLength, c)
RECURSIVE padStart(_, _, _)
padStart(str, targetLength, c) ==
    IF Len(str) >= targetLength THEN str
    ELSE padStart(<<c>> \o str, targetLength, c)

\* formatTimestamp with the minutes taken from all the seconds, the hours not
\* removed.
formatTimestamp_MinutesOfTotal(ms) ==
    LET totalSeconds == ms \div 1000
        hours == totalSeconds \div 3600
        minutes == totalSeconds \div 60
        seconds == totalSeconds % 60
    IN  padStart(toString(hours), 2, "0") \o <<":">>
            \o padStart(toString(minutes), 2, "0") \o <<":">>
            \o padStart(toString(seconds), 2, "0")

\* const totalSeconds = Math.floor(ms / 1000), ... `${hours...}:${minutes...}:${seconds...}`
formatTimestamp(ms) ==
    LET totalSeconds == ms \div 1000
        hours == totalSeconds \div 3600
        minutes == (totalSeconds % 3600) \div 60
        seconds == totalSeconds % 60
    IN  padStart(toString(hours), 2, "0") \o <<":">>
            \o padStart(toString(minutes), 2, "0") \o <<":">>
            \o padStart(toString(seconds), 2, "0")

\* the end of processAudioChunk for a chunk that resolved to n segments:
\* segments.map((segment, index) => ({..., timestamp, startTime, chunkIndex}))
TimedSegments(chunkIndex, n) ==
    LET startTime == chunkIndex * ChunkDurationMs
        timestamp == formatTimestamp(startTime)
    IN  [i \in 1..n |-> [timestamp  |-> timestamp,
                         startTime  |-> startTime + (i - 1) * SegmentOffsetMs,
                         chunkIndex |-> chunkIndex,
                         index      |-> i - 1]]

\* the milliseconds formatTimestamp is applied to: every second up to
\* MaxSeconds and the two about HundredHours, at the start and the end of the
\* second
TimestampInputs ==
    {sec * 1000 + r : sec \in (0..MaxSeconds) \cup {HundredHours - 1, HundredHours},
                      r \in {0, 999}}

\* a call of formatTimestamp(ms)
FormatTimestamp(ms) ==
    /\ stamp.pc = "idle"
    /\ stamp' = Stamp("formatted", ms, formatTimestamp(ms), <<>>)

\* a call of processAudioChunk that resolved to n segments
ChunkStamped(chunkIndex, n) ==
    /\ stamp.pc = "idle"
    /\ stamp' = Stamp("chunk", chunkIndex * ChunkDurationMs,
                      formatTimestamp(chunkIndex * ChunkDurationMs),
                      TimedSegments(chunkIndex, n))

NextTimestamp ==
    \/ /\ stamp.pc = "idle"
       /\ \E ms \in TimestampInputs : FormatTimestamp(ms)
       /\ UNCHANGED <<conn, sent, serverVars, dbVars, summaryJob, client, transcription,
                      capture, socketClient, stored>>
    \/ /\ stamp.pc = "idle"
       /\ \E k \in 0..MaxStampedChunk, n \in 1..MaxStampedSegments : ChunkStamped(k, n)
       /\ UNCHANGED <<conn, sent, serverVars, dbVars, summaryJob, client, transcription,
                      capture, socketClient, stored>>

SpecTimestamp == Init /\ [][NextTimestamp]_vars

\* the segments of a further chunk of the session are timed and kept
SegmentsStored(chunkIndex, n) ==
    /\ \A seg \in stored : seg.chunkIndex # chunkIndex
    /\ stored' = stored \cup {TimedSegments(chunkIndex, n)[i] : i \in 1..n}

NextSegments ==
    \E k \in 0..MaxTimedChunk, n \in 1..MaxLinesPerChunk : SegmentsStored(k, n)
       /\ UNCHANGED <<conn, sent, serverVars, dbVars, summaryJob, client, transcription,
                      capture, socketClient, stamp>>

SpecSegments == Init /\ [][NextSegments]_vars

----------------------------------------------------------------------------
(* Properties *)

\* (chunkIndex, position in the chunk) of a is not after that of b
SegmentLeq(a, b) ==
    \/ a.chunkIndex < b.chunkIndex
    \/ a.chunkIndex = b.chunkIndex /\ a.index <= b.index

Ordered(segments) ==
    \A i, j \in 1..Len(segments) : i < j => SegmentLeq(segments[i], segments[j])

IsError(ev) == ev.type = "error"

\* C1: the 'transcript-segment' events broadcast for a session are
\* non-decreasing in (chunkIndex, position in the chunk), whatever the order in
\* which the transcription calls complete.
C1_EmittedInOrder == \A sid \in SessionIds : Ordered(emitted[sid])

\* C2: a step that broadcasts the segments of chunk k of a session is taken only
\* when no transcription call for a lower chunk of that session is still
\* awaiting its result.
C2_LowerChunksFirst ==
    [][\A s \in Sockets, sid \in SessionIds, k \in ChunkIndices, o \in Outcomes :
          (ChunkProcessed(s, sid, k, o, MaxEmitted) /\ o.kind = "text")
              => \A c \in CallKeys : (c[2] = sid /\ c[3] < k) => calls[c] = 0]_vars

\* C3: an 'audio-chunk' is accepted only while the session of the socket is in
\* status 'recording': when the socket has no session, or its session is
\* paused, processing, completed or failed, the sender is sent an error and no
\* handler goes on to store and transcribe the chunk.
C3_ChunkOnlyWhileRecording ==
    [][\A s \in Sockets, k \in 0..MaxChunkIndexWide :
          (StoreChunk(s, k)
             /\ (dbActiveSessions[s] = 0 \/ dbStatus[dbActiveSessions[s]] # "recording"))
              => /\ \E i \in 1..Len(sent'[s]) : IsError(sent'[s][i])
                 /\ tasks' = tasks]_vars

\* C4: an 'audio-chunk' for a session that is not in the registry sends one
\* error event, to the sending socket only, starts no transcription call and
\* leaves the registry, the rooms and the broadcast transcript unchanged.
C4_UnknownSessionChunk ==
    [][\A s \in Sockets, sid \in SessionIds, k \in 0..MaxChunkIndexWide, p \in Payloads :
          (activeSessions[sid] = NoSession /\ AudioChunk(s, sid, k, p, MaxCallsWide))
              => /\ sent' = Deliver(Nothing, {s}, ErrorEvent("No active session"))
                 /\ UNCHANGED <<activeSessions, rooms, emitted, calls>>]_vars

\* C4 witness: the error was delivered to one socket while the other socket
\* records another session and a transcription call is awaiting its result.
C4_Witness ==
    \E s \in Sockets, sid \in SessionIds :
        /\ sent[s] = <<ErrorEvent("No active session")>>
        /\ \A t \in Sockets \ {s} : sent[t] = <<>>
        /\ activeSessions[sid] # NoSession
        /\ \E c \in CallKeys : calls[c] > 0

\* C5: a pause that takes effect on a session that is already paused is
\* answered with an error and no 'session-paused' acknowledgment.
C5_PauseWhenPausedRejected ==
    [][\A t \in tasks :
          (SessionPaused(t, TRUE) /\ dbStatus[t.row] = "paused" /\ Open(t.socket))
              => /\ \E i \in 1..Len(sent'[t.socket]) : IsError(sent'[t.socket][i])
                 /\ \A i \in 1..Len(sent'[t.socket]) :
                        sent'[t.socket][i].type # "session-paused"]_vars

\* C6: a start for a sessionId that is already in the registry is answered with
\* an error, not with 'recording-started', and leaves the registry unchanged.
C6_StartExistingRejected ==
    [][\A s \in Sockets, sid \in SessionIds, data \in StartData :
          (StartRecording(s, sid, data) /\ activeSessions[sid] # NoSession)
              => /\ activeSessions' = activeSessions
                 /\ \E i \in 1..Len(sent'[s]) : IsError(sent'[s][i])
                 /\ \A i \in 1..Len(sent'[s]) : sent'[s][i].type # "recording-started"]_vars

\* C7: a session whose status is 'processing' never returns to 'recording' or
\* 'paused': its next status is 'processing', 'completed' or 'failed'.
C7_ProcessingTerminalBound ==
    [][\A r \in Rows :
          dbStatus[r] = "processing"
              => dbStatus'[r] \in {"processing", "completed", "failed"}]_vars

\* C8: a failed transcription call leaves the registry unchanged, and the
\* segments of the chunks that follow a failed chunk are still broadcast in
\* order.
C8_FailureKeepsSessionAndOrder ==
    /\ [][\A s \in Sockets, sid \in SessionIds, k \in ChunkIndices :
             ChunkProcessed(s, sid, k, [kind |-> "failed", lines |-> 0], MaxEmitted)
                 => UNCHANGED <<activeSessions, rooms>>]_vars
    /\ [](\A sid \in SessionIds :
             \A lost \in errorLog[sid] :
                 Ordered(SelectSeq(emitted[sid], LAMBDA seg : seg.chunkIndex > lost)))

\* C9: when the transcription call of a chunk fails, the socket that sent the
\* chunk is sent an error event for it.
C9_FailedChunkReported ==
    [][\A s \in Sockets, sid \in SessionIds, k \in ChunkIndices :
          (ChunkProcessed(s, sid, k, [kind |-> "failed", lines |-> 0], MaxEmittedWide)
             /\ Open(s))
              => \E i \in 1..Len(sent'[s]) : IsError(sent'[s][i])]_vars

\* the transcript handed to a summarization is empty or whitespace only
IsEmptyTranscript(input) ==
    IF input.array THEN input.rows = 0 ELSE Len(Trim(input.text)) = 0

\* C10: a summarization of an empty or whitespace-only transcript never calls
\* the external capability, and the summary it produces at stop is the canned
\* text for an empty transcript.
C10_EmptyTranscriptCanned ==
    (summaryJob.pc # "idle" /\ IsEmptyTranscript(summaryJob.input))
        => /\ ~summaryJob.called
           /\ summaryJob.caller # "POST"
                 => summaryJob.summary \in {NoTranscriptionText, SessionRecorded(0)}

\* C11: when the summarization capability fails (it throws, or its response is
\* malformed), the summary produced is the fallback text that carries the word
\* count of the transcript and the reason of the error.
C11_FailureGivesFallback ==
    [][\A o \in {"throws", "malformed"} :
          (SummaryGenerated(o) \/ SummaryPosted(o))
              => summaryJob'.summary = FallbackSummary(WordCount(summaryJob.input.text))]_vars

\* C12: summary generation is started only by the transition of a session from
\* 'recording' or 'paused' to 'processing': a stop or a process request that
\* goes on to summarize finds the session in one of these two statuses, so no
\* session is summarized twice.
C12_SummaryOncePerSession ==
    [][\A t \in tasks :
          (t.pc = "toProcessing" /\ (StopStep(t, TRUE) \/ ProcessStep(t, TRUE)))
              => dbStatus[t.row] \in {"recording", "paused"}]_vars

\* the page has stopped its session and no transcription call of that session
\* is still awaiting its result
StoppedAndSettled ==
    /\ client.sessionState \in {"processing", "completed"}
    /\ \A c \in CallKeys : c[2] = client.sessionId => calls[c] = 0

\* C13: a transcription call that completes after the stop of its session still
\* has its segments broadcast, a chunk sent after the stop is answered with an
\* error and starts no call, and the segments of the calls that were in flight
\* at the stop are part of the transcript the session is summarized and saved
\* with.
C13_StopKeepsInFlight ==
    /\ [][\A sid \in SessionIds, k \in 0..(MaxClientChunks - 1), o \in Outcomes :
             (activeSessions[sid] = NoSession /\ SegmentsDelivered(sid, k, o))
                 => emitted'[sid] = emitted[sid] \o processAudioChunk(k, o)]_vars
    /\ [][(client.recorder = "stopping" /\ DataAvailable)
             => /\ sent'[Page] = <<ErrorEvent("No active session")>>
                /\ UNCHANGED calls]_vars
    /\ [](StoppedAndSettled
             => \A i \in 1..Len(emitted[client.sessionId]) :
                   \E j \in 1..Len(client.transcriptsToUse) :
                       client.transcriptsToUse[j] = emitted[client.sessionId][i])

C15_DuplicateChunkIgnored ==
    [][\A s \in Sockets, sid \in SessionIds, k \in ChunkIndices :
          (calls[Call(s, sid, k)] > 0 /\ AudioChunk(s, sid, k, "bytes", MaxCalls))
              => UNCHANGED calls]_vars

\* a handler invocation that writes the status of a session
IsTransition(t) ==
    \/ t.handler \in {"pause", "resume", "stop", "disconnect"}
    \/ t.handler = "process" /\ t.pc # "find"

\* C16: the lifecycle transitions of one session are serialized: no two handler
\* invocations that write the status of the same session are in flight at the
\* same time.
C16_TransitionsSerialized ==
    \A t1 \in tasks, t2 \in tasks :
        (IsTransition(t1) /\ IsTransition(t2) /\ t1.row = t2.row) => t1 = t2

\* C17: a session record does not stay in the registry forever: once every
\* connection is lost, the records still in the registry are eventually
\* removed.
C17_SessionsEvicted ==
    \A sid \in SessionIds :
        (activeSessions[sid] # NoSession /\ \A s \in Sockets : conn[s] = "closed")
            ~> (activeSessions[sid] = NoSession)

\* an entry of the stream that stands for chunk j without being one of its
\* transcript segments
IsGapMarker(e, j) == e.chunkIndex = j /\ e.type # "transcript-segment"

\* C18: the stream of a session goes past a chunk whose transcription has not
\* been answered only by putting a gap marker in its place: when segments of
\* chunk k are in the stream while a call for a lower chunk j is unanswered,
\* the stream holds a gap marker for j.
C18_GapMarkerForSkippedChunk ==
    \A c \in CallKeys : \A i \in 1..Len(emitted[c[2]]) :
        (calls[c] > 0 /\ c[3] < emitted[c[2]][i].chunkIndex)
            => \E m \in 1..Len(emitted[c[2]]) : IsGapMarker(emitted[c[2]][m], c[3])

\* C19: every accepted chunk resolves: a transcription call that is awaiting
\* the capability is eventually no longer awaited, whether or not the
\* capability answers it.
C19_AcceptedChunkResolves ==
    \A c \in CallKeys : (calls[c] > 0) ~> (calls[c] = 0)

\* C20: a session whose stop was accepted leaves 'processing' only for
\* 'completed' or 'failed': whatever the summary request and the save request
\* answer, no step takes it from 'processing' to idle, recording or paused.
C20_StopEndsCompletedOrFailed ==
    [][client.sessionState = "processing"
          => client'.sessionState \in {"processing", "completed", "failed"}]_vars

\* C21: a save of the finished session that is rejected (an error status) or
\* that fails (the request throws) takes the session from 'processing' to
\* 'failed'.
C21_FailedSaveFailsSession ==
    [][\A r \in {"not ok", "throws"} :
          HandleStop_Saved(r) => client'.sessionState = "failed"]_vars

\* C22: a session whose stored status is 'completed' or 'failed' keeps that
\* status in every later step, whichever request or message is handled.
C22_TerminalStatusKept ==
    [][\A r \in Rows :
          dbStatus[r] \in {"completed", "failed"} => dbStatus'[r] = dbStatus[r]]_vars

\* C23: a pause, resume or stop for a sessionId that is not in the registry
\* sends the sender an error, broadcasts none of 'recording-paused',
\* 'recording-resumed', 'processing-complete', and leaves the registry as it is.
C23_UnknownSessionSurfaced ==
    [][\A s \in Sockets, sid \in SessionIds :
          (/\ activeSessions[sid] = NoSession
           /\ \/ PauseRecording(s, sid)
              \/ ResumeRecording(s, sid)
              \/ StopRecording(s, sid))
              => /\ \E i \in 1..Len(sent'[s]) : IsError(sent'[s][i])
                 /\ \A r \in Sockets : \A i \in 1..Len(sent'[r]) :
                        sent'[r][i].type \notin
                            {"recording-paused", "recording-resumed", "processing-complete"}
                 /\ activeSessions' = activeSessions]_vars

\* line is '[<speaker>]: <text>' with the closing bracket at position i
HasForm(line, i) ==
    /\ line # <<>> /\ line[1] = "["
    /\ i \in 2..(Len(line) - 2) /\ line[i] = "]" /\ line[i + 1] = ":"

\* C24: for a text that is not blank, processAudioChunk returns one segment per
\* non-blank line, in the order of the lines: a line '[<speaker>]: <text>'
\* gives a segment with that speaker and that text, any other non-blank line
\* a segment labelled 'Speaker 1' that carries the whole line.
C24_OneSegmentPerLine ==
    (transcription.pc = "returned" /\ Trim(transcription.text) # <<>>)
        => LET lines == Lines(transcription.text)
               segments == transcription.segments
           IN  /\ Len(segments) = Len(lines)
               /\ \A n \in 1..Len(lines) : n <= Len(segments) =>
                      IF \E i \in 1..Len(lines[n]) : HasForm(lines[n], i)
                      THEN \E i \in 1..Len(lines[n]) :
                              /\ HasForm(lines[n], i)
                              /\ segments[n].speaker = Trim(SubSeq(lines[n], 2, i - 1))
                              /\ segments[n].text =
                                    Trim(SubSeq(lines[n], i + 2, Len(lines[n])))
                      ELSE /\ segments[n].speaker = Speaker1
                           /\ segments[n].text = Trim(lines[n])

EmptyOutcome == [kind |-> "empty", lines |-> 0]

\* C25: when the capability returns empty or whitespace-only text for a chunk,
\* the step that handles the answer sends no event to any socket (no segment,
\* no error), broadcasts no segment, and leaves the registry, the rooms and
\* the error log as they were.
C25_EmptyOutputIsSilent ==
    [][\A s \in Sockets, sid \in SessionIds, k \in 0..MaxChunkIndexWide :
          ChunkProcessed(s, sid, k, EmptyOutcome, MaxEmittedWide)
              => /\ sent' = Nothing
                 /\ emitted' = emitted
                 /\ activeSessions' = activeSessions
                 /\ rooms' = rooms
                 /\ errorLog' = errorLog]_vars

\* an empty answer was handled for a chunk of a session that is in the registry
\* and has a subscriber
C25_Witness ==
    \E sid \in SessionIds :
        /\ warnLog.sessionId = sid
        /\ activeSessions[sid] # NoSession
        /\ rooms[sid] # {}

\* the segments the step has added to the stream of session sid
NewSegments(sid) == SubSeq(emitted'[sid], Len(emitted[sid]) + 1, Len(emitted'[sid]))

MessageFor(s, sid) ==
    \/ \E data \in StartData : StartRecording(s, sid, data)
    \/ \E k \in 0..MaxChunkIndexWide, p \in Payloads : AudioChunk(s, sid, k, p, MaxCallsWide)
    \/ \E k \in 0..MaxChunkIndexWide, o \in Outcomes :
          ChunkProcessed(s, sid, k, o, MaxEmittedWide)
    \/ PauseRecording(s, sid)
    \/ ResumeRecording(s, sid)
    \/ StopRecording(s, sid)

HasSegment(box) == \E i \in 1..Len(box) : box[i].type = "transcript-segment"

\* C27: sessions do not interact. A step in which the registry entry, the room
\* or the stream of a session b changes is not the handling of a message that
\* names another session; and a step that delivers a segment to a socket r is
\* the answer to a chunk of a session whose room r is in, or to a chunk that r
\* sent itself.
C27_SessionsDoNotInteract ==
    /\ [][\A b \in SessionIds :
             (\/ activeSessions'[b] # activeSessions[b]
              \/ rooms'[b] # rooms[b]
              \/ emitted'[b] # emitted[b])
                 => \A s \in Sockets, a \in SessionIds \ {b} : ~MessageFor(s, a)]_vars
    /\ [][\A r \in Sockets :
             HasSegment(sent'[r])
                 => \A s \in Sockets, a \in SessionIds, k \in 0..MaxChunkIndexWide,
                       o \in Outcomes :
                        ChunkProcessed(s, a, k, o, MaxEmittedWide)
                            => (r \in rooms[a] \/ r = s)]_vars

\* two sessions are recorded by two sockets, and a segment of one has just
\* reached its own socket and not the other
C27_Witness ==
    \E a \in SessionIds, b \in SessionIds, r \in Sockets, q \in Sockets :
        /\ a # b /\ r # q
        /\ rooms[a] = {r} /\ rooms[b] = {q}
        /\ activeSessions[a] # NoSession /\ activeSessions[b] # NoSession
        /\ emitted[a] # <<>>
        /\ HasSegment(sent[r]) /\ sent[q] = <<>>

\* C28: a session whose connections have all disconnected is paused: until a
\* socket joins it again it accepts no chunk, that is, an 'audio-chunk' that
\* names it starts no transcription call.
C28_DisconnectPauses ==
    [][\A sid \in SessionIds :
          (activeSessions[sid] # NoSession /\ rooms[sid] = {})
              => \A c \in CallKeys : c[2] = sid => calls'[c] <= calls[c]]_vars

\* C29: the step of 'reconnect-session' that answers the request attaches the
\* socket to the session only if the session is the requesting user's and its
\* status is 'paused' then; otherwise the registry is left as it is and no
\* 'session-reconnected' is sent.
C29_ReconnectOnlyPaused ==
    [][\A t \in tasks :
          (t.handler = "reconnect" /\ Reconnected(t))
              => \/ dbStatus[t.row] = "paused" /\ dbUserId[t.row] = t.userId
                 \/ /\ dbActiveSessions' = dbActiveSessions
                    /\ \A i \in 1..Len(sent'[t.socket]) :
                           sent'[t.socket][i].type # "session-reconnected"]_vars

\* C30: in one recording, every 'audio-chunk' message carries the index of the
\* chunk it holds (the n-th chunk produced is sent with index n, counting from
\* 0), so the indices sent are pairwise distinct, whatever the order in which
\* the conversions end.
C30_IndexIsCaptureOrder ==
    /\ \A i \in 1..Len(capture.sentChunks) :
           capture.sentChunks[i].chunkIndex = capture.sentChunks[i].n
    /\ \A i, j \in 1..Len(capture.sentChunks) :
           i # j => capture.sentChunks[i].chunkIndex # capture.sentChunks[j].chunkIndex

\* number of times event ev is in the sequence box
Occurrences(box, ev) == Cardinality({i \in 1..Len(box) : box[i] = ev})

\* C31: a step that adds segments to the stream of a session delivers each of
\* them exactly once to each socket of the session's room, the sender included.
C31_SegmentDeliveredOnce ==
    [][\A sid \in SessionIds :
          emitted'[sid] # emitted[sid]
              => \A r \in rooms[sid] : \A n \in 1..Len(NewSegments(sid)) :
                     Occurrences(sent'[r], NewSegments(sid)[n]) = 1]_vars


Before(a, b) ==
    \/ a.chunkIndex < b.chunkIndex
    \/ a.chunkIndex = b.chunkIndex /\ a.index < b.index

\* C33: of two segments of the session, the one that comes first in
\* (chunkIndex, position) has the strictly smaller startTime.
C33_StartTimeKeepsOrder ==
    \A a, b \in stored : Before(a, b) => a.startTime < b.startTime


\* C34: a start puts its session in the registry, a stop takes its session
\* out, and no other step (chunk, pause, resume, disconnect, or a start or stop
\* of another session) changes a session's entry.
C34_OnlyStartAndStopWriteRegistry ==
    [][\A sid \in SessionIds :
          /\ (\E s \in Sockets, data \in StartData : StartRecording(s, sid, data))
                => activeSessions'[sid] # NoSession
          /\ (\E s \in Sockets : StopRecording(s, sid))
                => activeSessions'[sid] = NoSession
          /\ activeSessions'[sid] # activeSessions[sid]
                => \/ \E s \in Sockets, data \in StartData : StartRecording(s, sid, data)
                   \/ \E s \in Sockets : StopRecording(s, sid)]_vars

\* a session is in the registry after a chunk of it was transcribed and a
\* connection closed
C34_Witness ==
    \E sid \in SessionIds :
        /\ activeSessions[sid] # NoSession
        /\ emitted[sid] # <<>>
        /\ \E s \in Sockets : conn[s] = "closed"


\* C35: at most one of the sockets the browser made is open, opening or
\* reconnecting.
C35_OneLiveSocket ==
    Cardinality({id \in SocketIds : socketClient.state[id] \in Live}) <= 1


\* the fields of a timestamp string, cut at the colons
RECURSIVE Fields(_)
Fields(str) ==
    IF \A i \in 1..Len(str) : str[i] # ":"
    THEN <<str>>
    ELSE LET i == CHOOSE i \in 1..Len(str) : str[i] = ":" /\ \A j \in 1..(i - 1) : str[j] # ":"
         IN  <<SubSeq(str, 1, i - 1)>> \o Fields(SubSeq(str, i + 1, Len(str)))

IsDigits(field) ==
    /\ field # <<>>
    /\ \A i \in 1..Len(field) : \E d \in 1..10 : DigitChars[d] = field[i]

\* the number a string of digits reads as
RECURSIVE NumberOf(_)
NumberOf(field) ==
    IF field = <<>> THEN 0
    ELSE 10 * NumberOf(SubSeq(field, 1, Len(field) - 1))
            + (CHOOSE d \in 0..9 : DigitChars[d + 1] = field[Len(field)])

\* C36: the string formatTimestamp made of ms has three fields of digits, of at
\* least two digits for the hours and of two for the minutes and the seconds,
\* which are in 0..59; read as hours, minutes and seconds they add up to
\* floor(ms / 1000); and the segments of a chunk all carry the string made of
\* chunkIndex * 30000.
C36_TimestampReadsBack ==
    stamp.pc # "idle" =>
        LET f == Fields(stamp.timestamp)
        IN  /\ Len(f) = 3
            /\ \A i \in 1..3 : IsDigits(f[i])
            /\ Len(f[1]) >= 2 /\ Len(f[2]) = 2 /\ Len(f[3]) = 2
            /\ NumberOf(f[2]) \in 0..59 /\ NumberOf(f[3]) \in 0..59
            /\ NumberOf(f[1]) * 3600 + NumberOf(f[2]) * 60 + NumberOf(f[3])
                   = stamp.ms \div 1000
            /\ \A i \in 1..Len(stamp.segments) :
                   /\ stamp.ms = stamp.segments[i].chunkIndex * ChunkDurationMs
                   /\ stamp.segments[i].timestamp = stamp.timestamp

\* chunk 123 (3690 s into the session) resolved to two segments, both stamped
\* 01:01:30
C36_Witness ==
    /\ stamp.pc = "chunk"
    /\ stamp.timestamp = <<"0", "1", ":", "0", "1", ":", "3", "0">>
    /\ Len(stamp.segments) = 2
    /\ stamp.segments[2].timestamp = stamp.timestamp

====
